---- MODULE Spec2Model ----
(***************************************************************************)
(* Model of tree_drawer (draw.py, processing.py): selection of multiples   *)
(* among the leaves of a rooted tree, propagation of the multiples         *)
(* annotation, the match matrix, the search for matches, the cleaning of   *)
(* the match set and the merging of matches into groups.                   *)
(*                                                                         *)
(* Strings are sequences of one-character strings.  Nodes are numbered     *)
(* 1..N; list indices are 1-based (Python's index i is i+1 here).          *)
(* A float that is the quotient of two small integers is the pair          *)
(* <<numerator, denominator>>; floats are compared by cross-multiplying.   *)
(***************************************************************************)
EXTENDS Integers, Sequences, FiniteSets, TLC

VARIABLES
    up,                \* node -> parent node, 0 for the root (ete3 node.up)
    name,              \* leaf -> leaf.name
    multies,           \* the dict multies: sequence of <<name, leaf>>, in insertion order
    multi_descendants, \* node -> node.multi_descendants (read only where annotated > 0)
    annotated,         \* node -> number of add_multi_annotation calls made for it
    pos,               \* position of the annotation loop in the post-order traversal
    node_refs,         \* list of candidate nodes
    match_matrix,      \* match_matrix[y][x]
    s,                 \* args.s, <<numerator, denominator>>
    matches,           \* list of index pairs
    node_matches,      \* list of node pairs
    clean_matches,     \* list of node pairs
    groups,            \* list of sets of nodes
    pc,                \* position of draw.py in its stages
    call_vectors,      \* <<vector1, vector2>> of a direct call of match_score
    call_result        \* its outcome

vars == <<up, name, multies, multi_descendants, annotated, pos, node_refs,
          match_matrix, s, matches, node_matches, clean_matches, groups, pc,
          call_vectors, call_result>>

callVars == <<call_vectors, call_result>>

(***************************************************************************)
(* Bounds and inputs                                                       *)
(***************************************************************************)
\* every ordered rooted tree of at most MaxNodes nodes is an input
MaxNodes == 5

\* longest prefix list given to a direct call of match_score
MaxVecLen == 3

\* leaf names as they stand in the tree file
NamePool ==
    { <<"X", "_", "1">>,
      <<"X", "_", "2">>,
      <<"Y", "_", "1">>,
      <<"Y", "_", "(", "1", "-", "2", ")", "_", "2">>,
      <<"X", "Y", "_", "1">>,
      <<"Z">> }

\* values of -s: 0.0, 0.5 (the default), 1.0
Thresholds == { <<0, 1>>, <<1, 2>>, <<1, 1>> }

\* prefixes of the lists given to a direct call of match_score
PrefixPool == { <<"X">>, <<"Y">>, <<"X", "Y">> }

(***************************************************************************)
(* Sequences                                                               *)
(***************************************************************************)
Range(q) == { q[i] : i \in DOMAIN q }

RECURSIVE SetToSeq(_)
\* the members of a set of integers, ascending
SetToSeq(S) ==
    IF S = {} THEN << >>
    ELSE LET m == CHOOSE x \in S : \A y \in S : x <= y
         IN  <<m>> \o SetToSeq(S \ {m})

RECURSIVE SeqsUpTo(_, _)
SeqsUpTo(S, n) ==
    IF n = 0 THEN { << >> }
    ELSE LET shorter == SeqsUpTo(S, n - 1)
         IN  shorter \cup { Append(q, x) : q \in shorter, x \in S }

(***************************************************************************)
(* Trees.  Nodes are numbered in post-order, so the parent of a node has a *)
(* larger number and the nodes between a node and its parent belong to the *)
(* parent's subtree.                                                       *)
(***************************************************************************)
TreesOfSize(n) ==
    { p \in [1..n -> 0..n] :
        /\ p[n] = 0
        /\ \A i \in 1..(n - 1) : p[i] > i
        /\ \A i \in 1..(n - 1) : \A j \in (i + 1)..(p[i] - 1) : p[j] <= p[i] }

\* ((l,l),(l,l)): two clades of two leaves
TwoClades == <<3, 3, 7, 6, 6, 7, 0>>

\* (((l)),((l))): two chains of two nested clades
NestedClades == <<2, 3, 7, 5, 6, 7, 0>>

\* (((l)),(l)): a chain of two nested clades and a single clade
NestedAndSingle == <<2, 3, 6, 5, 6, 0>>

\* ((l),(l),(l),(l,l)): four sibling clades
FourClades == <<2, 10, 4, 10, 6, 10, 9, 9, 10, 0>>

\* (((l)),(l),(l)): a chain of two nested clades and two single clades
NestedAndTwo == <<2, 3, 8, 5, 8, 7, 8, 0>>

Trees ==
    UNION { TreesOfSize(n) : n \in 1..MaxNodes }
        \cup { TwoClades, NestedClades, NestedAndSingle, NestedAndTwo, FourClades }

Nodes == DOMAIN up

Root == CHOOSE n \in Nodes : up[n] = 0

ChildSet(p, n) == { c \in DOMAIN p : p[c] = n }

\* node.children, in order
children(n) == SetToSeq(ChildSet(up, n))

is_leaf(n) == ChildSet(up, n) = {}

LeavesOf(p) == { n \in DOMAIN p : ChildSet(p, n) = {} }

RECURSIVE get_ancestors(_)
\* node.get_ancestors() / node.iter_ancestors(): the parent first, the root last
get_ancestors(n) ==
    IF up[n] = 0 THEN << >> ELSE <<up[n]>> \o get_ancestors(up[n])

RECURSIVE PostOrderFrom(_)
RECURSIVE PostOrderOfList(_)
PostOrderOfList(cs) ==
    IF cs = << >> THEN << >>
    ELSE PostOrderFrom(Head(cs)) \o PostOrderOfList(Tail(cs))

\* tree.traverse(strategy='postorder') from node n
PostOrderFrom(n) == PostOrderOfList(children(n)) \o <<n>>

PostOrder == PostOrderFrom(Root)

\* tree.get_leaves(): the leaves, left to right
get_leaves == SelectSeq(PostOrder, is_leaf)

(***************************************************************************)
(* Strings                                                                 *)
(***************************************************************************)
IsDigit(c) == c \in {"0", "1", "2", "3", "4", "5", "6", "7", "8", "9"}

RECURSIVE DigitRun(_, _)
\* length of the run of digits of str that starts at position i
DigitRun(str, i) ==
    IF i <= Len(str) /\ IsDigit(str[i]) THEN 1 + DigitRun(str, i + 1) ELSE 0

\* length of the match of '_\(\d+-\d+\)' at the start of str, 0 if none
PositionMatchLen(str) ==
    IF Len(str) >= 2 /\ str[1] = "_" /\ str[2] = "("
    THEN LET d1 == DigitRun(str, 3)
         IN  IF d1 >= 1 /\ 3 + d1 <= Len(str) /\ str[3 + d1] = "-"
             THEN LET d2 == DigitRun(str, 4 + d1)
                  IN  IF d2 >= 1 /\ 4 + d1 + d2 <= Len(str)
                                 /\ str[4 + d1 + d2] = ")"
                      THEN 4 + d1 + d2
                      ELSE 0
             ELSE 0
    ELSE 0

RECURSIVE trim_name(_)
\* re.sub('_\(\d+-\d+\)', '', name)
trim_name(str) ==
    IF str = << >> THEN << >>
    ELSE LET k == PositionMatchLen(str)
         IN  IF k > 0
             THEN trim_name(SubSeq(str, k + 1, Len(str)))
             ELSE <<Head(str)>> \o trim_name(Tail(str))

\* multi_re.match(name), multi_re = '(.+)_\d+$'
multi_re_match(str) ==
    \E k \in 2..(Len(str) - 1) :
        /\ str[k] = "_"
        /\ \A j \in (k + 1)..Len(str) : IsDigit(str[j])

\* '_'.join(name.split('_')[:-1])
split_prefix(str) ==
    LET us == { k \in 1..Len(str) : str[k] = "_" }
    IN  IF us = {} THEN << >>
        ELSE LET last == CHOOSE k \in us : \A j \in us : j <= k
             IN  SubSeq(str, 1, last - 1)

\* sub in str, for strings
Contains(sub, str) ==
    \E i \in 0..(Len(str) - Len(sub)) : SubSeq(str, i + 1, i + Len(sub)) = sub

(***************************************************************************)
(* The dict multies                                                        *)
(***************************************************************************)
Keys(d) == { d[i][1] : i \in DOMAIN d }

\* d[k]
Lookup(d, k) == (CHOOSE e \in Range(d) : e[1] = k)[2]

\* d[k] = v: a key already present keeps its place
DictSet(d, k, v) ==
    IF k \in Keys(d)
    THEN [i \in 1..Len(d) |-> IF d[i][1] = k THEN <<k, v>> ELSE d[i]]
    ELSE Append(d, <<k, v>>)

RECURSIVE SelectLoop(_, _, _)
\* the loop over the leaves: <<names, multies>> after it
SelectLoop(leaves, names, d) ==
    IF leaves = << >> THEN <<names, d>>
    ELSE LET leaf    == Head(leaves)
             trimmed == trim_name(names[leaf])
             names2  == [names EXCEPT ![leaf] = trimmed]
         IN  IF multi_re_match(trimmed)
             THEN SelectLoop(Tail(leaves), names2, DictSet(d, trimmed, leaf))
             ELSE SelectLoop(Tail(leaves), names2, d)

\* matches = [x for x in multies if prefix in x]
PrefixMatches(d, prefix) == SelectSeq(d, LAMBDA e : Contains(prefix, e[1]))

\* the dict to_trim: the entries <<name, prefix>> with fewer than two matches
to_trim(d) ==
    LET wanted == SelectSeq(d, LAMBDA e : Len(PrefixMatches(d, split_prefix(e[1]))) < 2)
    IN  IF wanted = << >> THEN << >>
        ELSE [i \in 1..Len(wanted) |-> <<wanted[i][1], split_prefix(wanted[i][1])>>]

\* leaf names after 'multies[name].name = to_trim[name]' for every name of to_trim
TrimmedNames(names, d) ==
    LET tt == to_trim(d)
    IN  [l \in DOMAIN names |->
            IF \E i \in DOMAIN tt : Lookup(d, tt[i][1]) = l
            THEN (CHOOSE e \in Range(tt) : Lookup(d, e[1]) = l)[2]
            ELSE names[l]]

\* multies after 'del multies[name]' for every name of to_trim
TrimmedMulties(d) ==
    LET gone == { e[1] : e \in Range(to_trim(d)) }
    IN  SelectSeq(d, LAMBDA e : e[1] \notin gone)

(***************************************************************************)
(* processing.py                                                           *)
(***************************************************************************)
\* the list assigned to node.multi_descendants by add_multi_annotation(node, multies)
RECURSIVE ConcatAnnotations(_)
ConcatAnnotations(cs) ==
    IF cs = << >> THEN << >>
    ELSE multi_descendants[Head(cs)] \o ConcatAnnotations(Tail(cs))

RECURSIVE Distinct(_)
\* the list without the later occurrences of its members
Distinct(list) ==
    IF list = << >> THEN << >>
    ELSE LET rest == Distinct(SubSeq(list, 1, Len(list) - 1))
             last == list[Len(list)]
         IN  IF last \in Range(rest) THEN rest ELSE Append(rest, last)

\* add_multi_annotation keeping each prefix of an internal node once
add_multi_annotation_distinct(node) ==
    IF is_leaf(node)
    THEN IF name[node] \in Keys(multies)
         THEN <<split_prefix(name[node])>>
         ELSE << >>
    ELSE Distinct(ConcatAnnotations(children(node)))

add_multi_annotation(node) ==
    IF is_leaf(node)
    THEN IF name[node] \in Keys(multies)
         THEN <<split_prefix(name[node])>>
         ELSE << >>
    ELSE ConcatAnnotations(children(node))

\* match_score with the union counted on the lists, duplicates included
match_score_on_lists(vector1, vector2) ==
    LET s1 == Range(vector1)
        s2 == Range(vector2)
    IN  <<Cardinality(s1 \cap s2),
          Len(vector1) + Len(vector2) - Cardinality(s1 \cap s2)>>

\* len(s1.intersection(s2)) / len(s1.union(s2)) as <<dividend, divisor>>;
\* the division raises ZeroDivisionError when the divisor is 0
match_score(vector1, vector2) ==
    LET s1 == Range(vector1)
        s2 == Range(vector2)
    IN  <<Cardinality(s1 \cap s2), Cardinality(s1 \cup s2)>>

\* a < b for floats
FloatLess(a, b) == a[1] * b[2] < b[1] * a[2]

\* are_ancestors without its first loop
are_ancestors_second_loop(node1, node2) ==
    \E i \in DOMAIN get_ancestors(node2) : get_ancestors(node2)[i] = node1

are_ancestors(node1, node2) ==
    \/ \E i \in DOMAIN get_ancestors(node1) : get_ancestors(node1)[i] = node2
    \/ \E i \in DOMAIN get_ancestors(node2) : get_ancestors(node2)[i] = node1

(***************************************************************************)
(* draw.py: the match matrix and the search through it                     *)
(***************************************************************************)
\* [x for x in tree.traverse('postorder') if x.multi_descendants and not x.is_leaf()]
CandidateNodes ==
    SelectSeq(PostOrder, LAMBDA x : multi_descendants[x] # << >> /\ ~is_leaf(x))

\* [[match_score(x..., y...) for x in node_refs] for y in node_refs]
MatchMatrix(refs) ==
    IF refs = << >> THEN << >>
    ELSE [y \in 1..Len(refs) |->
            [x \in 1..Len(refs) |->
                match_score(multi_descendants[refs[x]], multi_descendants[refs[y]])]]

RECURSIVE SearchLine(_, _, _, _)
\* the inner loop, from element on, for the line number index
SearchLine(t, index, element, found) ==
    IF element > Len(match_matrix[index]) THEN found
    ELSE IF \/ FloatLess(match_matrix[index][element], t)
            \/ FloatLess(match_matrix[element][index], t)
         THEN SearchLine(t, index, element + 1, found)
         ELSE IF <<element, index>> \in Range(found)
              THEN SearchLine(t, index, element + 1, found)
              ELSE IF are_ancestors(node_refs[index], node_refs[element])
                   THEN SearchLine(t, index, element + 1, found)
                   ELSE SearchLine(t, index, element + 1,
                                   Append(found, <<index, element>>))

\* range(index, len(line))
FirstElementIsIndex(index) == index

\* range(index+1, len(line)), as the first element of the inner loop
FirstElement(index) == index + 1

RECURSIVE SearchFrom(_, _, _)
SearchFrom(t, index, found) ==
    IF index > Len(match_matrix) THEN found
    ELSE SearchFrom(t, index + 1, SearchLine(t, index, FirstElement(index), found))

\* the list matches for the threshold t
SearchMatches(t) == SearchFrom(t, 1, << >>)

\* [(node_refs[x[0]], node_refs[x[1]]) for x in matches]
NodeMatches(ms) ==
    IF ms = << >> THEN << >>
    ELSE [i \in 1..Len(ms) |-> <<node_refs[ms[i][1]], node_refs[ms[i][2]]>>]

(***************************************************************************)
(* draw.py: cleaning the match set                                         *)
(***************************************************************************)
\* the tests of the inner loop without the last one
RemovesWithoutLastTest(other_match, match) ==
    LET anc0 == Range(get_ancestors(match[1]))
        anc1 == Range(get_ancestors(match[2]))
    IN  \/ other_match[1] \in anc0 /\ other_match[2] \in anc1
        \/ other_match[2] \in anc0 /\ other_match[1] \in anc1
        \/ /\ match[1] \in Range(other_match)
           /\ (other_match[1] \in anc1 \/ other_match[2] \in anc1)

\* the tests of the inner loop, the third one without its ancestor condition
RemovesOnSharedNode(other_match, match) ==
    LET anc0 == Range(get_ancestors(match[1]))
        anc1 == Range(get_ancestors(match[2]))
    IN  \/ other_match[1] \in anc0 /\ other_match[2] \in anc1
        \/ other_match[2] \in anc0 /\ other_match[1] \in anc1
        \/ match[1] \in Range(other_match)
        \/ /\ match[2] \in Range(other_match)
           /\ (other_match[1] \in anc0 \/ other_match[2] \in anc0)

\* the four tests of the inner loop that set found for match against other_match
Removes(other_match, match) ==
    LET anc0 == Range(get_ancestors(match[1]))
        anc1 == Range(get_ancestors(match[2]))
    IN  \/ other_match[1] \in anc0 /\ other_match[2] \in anc1
        \/ other_match[2] \in anc0 /\ other_match[1] \in anc1
        \/ /\ match[1] \in Range(other_match)
           /\ (other_match[1] \in anc1 \/ other_match[2] \in anc1)
        \/ /\ match[2] \in Range(other_match)
           /\ (other_match[1] \in anc0 \/ other_match[2] \in anc0)

\* the value of found after the inner loop
Found(ms, match) ==
    \E k \in DOMAIN ms : ms[k] # match /\ Removes(ms[k], match)

\* the list clean_matches built from the list ms
CleanMatches(ms) == SelectSeq(ms, LAMBDA match : ~Found(ms, match))

(***************************************************************************)
(* draw.py: merging matches into groups                                    *)
(***************************************************************************)
\* 'match[0] or match[1] in group': a node is true
InGroupOrNode(match, group) == TRUE

\* the test of the inner loop
InGroup(match, group) == match[1] \in group \/ match[2] \in group

RECURSIVE MergeLoop(_, _)
MergeLoop(ms, gs) ==
    IF ms = << >> THEN gs
    ELSE LET match == Head(ms)
             hits  == { i \in DOMAIN gs : InGroup(match, gs[i]) }
         IN  IF hits = {}
             THEN MergeLoop(Tail(ms), Append(gs, {match[1], match[2]}))
             ELSE LET first == CHOOSE i \in hits : \A j \in hits : i <= j
                  IN  MergeLoop(Tail(ms),
                                [gs EXCEPT ![first] = @ \cup {match[1], match[2]}])

\* the list groups built from the list ms
MergeGroups(ms) == MergeLoop(ms, << >>)

(***************************************************************************)
(* The run of draw.py, from the preprocessed tree on                       *)
(***************************************************************************)
NoCall == [state |-> "none", value |-> <<0, 0>>]

Init ==
    /\ up \in Trees
    /\ name \in [LeavesOf(up) -> NamePool]
    /\ multies = << >>
    /\ multi_descendants = [n \in DOMAIN up |-> << >>]
    /\ annotated = [n \in DOMAIN up |-> 0]
    /\ pos = 1
    /\ node_refs = << >>
    /\ match_matrix = << >>
    /\ s = <<0, 0>>
    /\ matches = << >>
    /\ node_matches = << >>
    /\ clean_matches = << >>
    /\ groups = << >>
    /\ pc = "select"
    /\ call_vectors = << << >>, << >> >>
    /\ call_result = NoCall

\* lines 67-73
SelectMultiples ==
    /\ pc = "select"
    /\ LET r == SelectLoop(get_leaves, name, << >>)
       IN  name' = r[1] /\ multies' = r[2]
    /\ pc' = "trim"
    /\ UNCHANGED <<up, multi_descendants, annotated, pos, node_refs, match_matrix,
                   s, matches, node_matches, clean_matches, groups, callVars>>

\* lines 77-86
TrimNonMultiples ==
    /\ pc = "trim"
    /\ name' = TrimmedNames(name, multies)
    /\ multies' = TrimmedMulties(multies)
    /\ pc' = "pairing"
    /\ UNCHANGED <<up, multi_descendants, annotated, pos, node_refs, match_matrix,
                   s, matches, node_matches, clean_matches, groups, callVars>>

\* lines 100-101: args.skip_pairing is set
SkipPairing ==
    /\ pc = "pairing"
    /\ pc' = "skipped"
    /\ UNCHANGED <<up, name, multies, multi_descendants, annotated, pos, node_refs,
                   match_matrix, s, matches, node_matches, clean_matches, groups,
                   callVars>>

\* lines 102-104: args.skip_pairing is not set
StartPairing ==
    /\ pc = "pairing"
    /\ pc' = "annotate"
    /\ pos' = 1
    /\ UNCHANGED <<up, name, multies, multi_descendants, annotated, node_refs,
                   match_matrix, s, matches, node_matches, clean_matches, groups,
                   callVars>>

\* lines 105-106: one iteration of the loop.  Reading multi_descendants of a
\* child that has none raises AttributeError.
Annotate ==
    /\ pc = "annotate"
    /\ pos <= Len(PostOrder)
    /\ LET node == PostOrder[pos]
       IN  IF \E c \in ChildSet(up, node) : annotated[c] = 0
           THEN /\ pc' = "AttributeError"
                /\ UNCHANGED <<multi_descendants, annotated, pos>>
           ELSE /\ multi_descendants' =
                       [multi_descendants EXCEPT ![node] = add_multi_annotation(node)]
                /\ annotated' = [annotated EXCEPT ![node] = @ + 1]
                /\ pos' = pos + 1
                /\ pc' = IF pos = Len(PostOrder) THEN "matrix" ELSE "annotate"
    /\ UNCHANGED <<up, name, multies, node_refs, match_matrix, s, matches,
                   node_matches, clean_matches, groups, callVars>>

\* lines 112-114
GenerateMatrix ==
    /\ pc = "matrix"
    /\ node_refs' = CandidateNodes
    /\ match_matrix' = MatchMatrix(CandidateNodes)
    /\ pc' = "search"
    /\ UNCHANGED <<up, name, multies, multi_descendants, annotated, pos, s, matches,
                   node_matches, clean_matches, groups, callVars>>

\* lines 115-128, for the value t of args.s
Search ==
    /\ pc = "search"
    /\ \E t \in Thresholds :
          /\ s' = t
          /\ matches' = SearchMatches(t)
          /\ node_matches' = NodeMatches(SearchMatches(t))
    /\ pc' = "clean"
    /\ UNCHANGED <<up, name, multies, multi_descendants, annotated, pos, node_refs,
                   match_matrix, clean_matches, groups, callVars>>

\* lines 133-158
Clean ==
    /\ pc = "clean"
    /\ clean_matches' = CleanMatches(node_matches)
    /\ pc' = "merge"
    /\ UNCHANGED <<up, name, multies, multi_descendants, annotated, pos, node_refs,
                   match_matrix, s, matches, node_matches, groups, callVars>>

\* lines 172-182
Merge ==
    /\ pc = "merge"
    /\ groups' = MergeGroups(clean_matches)
    /\ pc' = "done"
    /\ UNCHANGED <<up, name, multies, multi_descendants, annotated, pos, node_refs,
                   match_matrix, s, matches, node_matches, clean_matches, callVars>>

Next ==
    \/ SelectMultiples
    \/ TrimNonMultiples
    \/ SkipPairing
    \/ StartPairing
    \/ Annotate
    \/ GenerateMatrix
    \/ Search
    \/ Clean
    \/ Merge

Spec == Init /\ [][Next]_vars

(***************************************************************************)
(* A direct call of match_score on two prefix lists                        *)
(***************************************************************************)
Vectors == SeqsUpTo(PrefixPool, MaxVecLen)

InitCall ==
    /\ up = <<0>>
    /\ name = [l \in {1} |-> <<"Z">>]
    /\ multies = << >>
    /\ multi_descendants = [n \in {1} |-> << >>]
    /\ annotated = [n \in {1} |-> 0]
    /\ pos = 1
    /\ node_refs = << >>
    /\ match_matrix = << >>
    /\ s = <<0, 0>>
    /\ matches = << >>
    /\ node_matches = << >>
    /\ clean_matches = << >>
    /\ groups = << >>
    /\ pc = "call"
    /\ call_vectors \in Vectors \X Vectors
    /\ call_result = NoCall

\* processing.py lines 60-62
CallMatchScore ==
    /\ pc = "call"
    /\ call_result.state = "none"
    /\ LET r == match_score(call_vectors[1], call_vectors[2])
       IN  call_result' = [state |-> IF r[2] = 0 THEN "ZeroDivisionError" ELSE "returned",
                           value |-> r]
    /\ UNCHANGED <<up, name, multies, multi_descendants, annotated, pos, node_refs,
                   match_matrix, s, matches, node_matches, clean_matches, groups, pc,
                   call_vectors>>

NextCall == CallMatchScore

SpecCall == InitCall /\ [][NextCall]_vars

(***************************************************************************)
(* Notions of the specification, used to state the properties              *)
(***************************************************************************)
RECURSIVE Descendants(_)
\* the nodes reachable from n by repeated child traversal
Descendants(n) ==
    ChildSet(up, n) \cup UNION { Descendants(c) : c \in ChildSet(up, n) }

IsAncestorOf(a, b) == b \in Descendants(a)

Related(a, b) == IsAncestorOf(a, b) \/ IsAncestorOf(b, a)

FloatEq(a, b) == a[1] * b[2] = b[1] * a[2]

FloatGeq(a, b) == a[1] * b[2] >= b[1] * a[2]

LexLess(a, b) == a[1] < b[1] \/ (a[1] = b[1] /\ a[2] < b[2])

\* section 4.5: the match o dominates the match m
Dominates(o, m) ==
    \/ IsAncestorOf(o[1], m[1]) /\ IsAncestorOf(o[2], m[2])
    \/ IsAncestorOf(o[1], m[2]) /\ IsAncestorOf(o[2], m[1])
    \/ o[1] = m[1] /\ IsAncestorOf(o[2], m[2])
    \/ o[1] = m[2] /\ IsAncestorOf(o[2], m[1])
    \/ o[2] = m[1] /\ IsAncestorOf(o[1], m[2])
    \/ o[2] = m[2] /\ IsAncestorOf(o[1], m[1])

Searched == pc \in {"clean", "merge", "done"}

Cleaned == pc \in {"merge", "done"}

Annotated == pc \in {"matrix", "search", "clean", "merge", "done"}

Endpoints(ms) == UNION { {m[1], m[2]} : m \in Range(ms) }

RECURSIVE LinkedTo(_, _)
\* the members of group linked to a member of reached by a chain of clean
\* matches with both endpoints in group
LinkedTo(reached, group) ==
    LET more == { n \in group :
                    \E m \in Range(clean_matches) :
                        /\ {m[1], m[2]} \subseteq group
                        /\ n \in {m[1], m[2]}
                        /\ {m[1], m[2]} \cap reached # {} }
    IN  IF more \subseteq reached THEN reached
        ELSE LinkedTo(reached \cup more, group)

RECURSIVE Concat(_)
Concat(lists) ==
    IF lists = << >> THEN << >> ELSE Head(lists) \o Concat(Tail(lists))

\* the lists of the children of n, in order
ChildLists(n) ==
    IF is_leaf(n) THEN << >>
    ELSE [i \in 1..Len(children(n)) |-> multi_descendants[children(n)[i]]]

(***************************************************************************)
(* Properties                                                              *)
(***************************************************************************)
\* C1: in the final group list the groups are pairwise disjoint: no node is a
\* member of two different groups.
C1_GroupsDisjoint ==
    pc = "done" =>
        \A i, j \in DOMAIN groups : i # j => groups[i] \cap groups[j] = {}

\* C2: once non-multiples are trimmed, every prefix that still has a leaf in
\* multies has at least two leaves named <prefix>_<digits> in multies, and a
\* prefix matched by exactly one leaf name is absent from multies, its leaf
\* renamed to the bare prefix.
C2_RegistryInvariant ==
    [][ pc = "trim" =>
          /\ \A e \in Range(multies') :
                Cardinality({ f \in Range(multies') :
                                split_prefix(f[1]) = split_prefix(e[1]) }) >= 2
          /\ \A l \in DOMAIN name :
                ( /\ multi_re_match(name[l])
                  /\ Cardinality({ k \in DOMAIN name :
                                     /\ multi_re_match(name[k])
                                     /\ split_prefix(name[k]) = split_prefix(name[l]) }) = 1 )
                => /\ name'[l] = split_prefix(name[l])
                   /\ \A e \in Range(multies') :
                         split_prefix(e[1]) # split_prefix(name[l]) ]_vars

C4_CleanNotDominated ==
    Cleaned =>
        \A m, o \in Range(clean_matches) : m # o => ~Dominates(o, m)

C4_Witness ==
    /\ pc = "done"
    /\ Len(clean_matches) >= 2
    /\ \E m, o \in Range(node_matches) :
          /\ Dominates(o, m)
          /\ o \in Range(clean_matches)
          /\ m \notin Range(clean_matches)

\* C5: no raw match and no clean match pairs a node with one of its ancestors
\* or descendants, and the root is in no match.
C5_NoAncestorPairs ==
    Searched =>
        \A m \in Range(node_matches) \cup Range(clean_matches) :
            /\ ~Related(m[1], m[2])
            /\ Root \notin {m[1], m[2]}

C5_Witness ==
    /\ pc = "done"
    /\ clean_matches # << >>
    /\ Root \in Range(node_refs)
    /\ \E i, j \in DOMAIN node_refs :
          /\ i < j
          /\ node_refs[j] # Root
          /\ Related(node_refs[i], node_refs[j])
          /\ FloatGeq(match_matrix[i][j], s)

\* C6: after the annotation pass the list of an internal node is the
\* concatenation of its children's lists, the list of a leaf is [prefix] when
\* its name is in multies and [] otherwise; every node is annotated once, and
\* never before all of its children.
C6_AnnotationFold ==
    /\ pc # "AttributeError"
    /\ \A n \in Nodes :
          /\ annotated[n] <= 1
          /\ annotated[n] = 1 => \A c \in ChildSet(up, n) : annotated[c] = 1
    /\ Annotated =>
          \A n \in Nodes :
              /\ annotated[n] = 1
              /\ multi_descendants[n] =
                    IF is_leaf(n)
                    THEN IF \E e \in Range(multies) : e[1] = name[n]
                         THEN <<split_prefix(name[n])>>
                         ELSE << >>
                    ELSE Concat(ChildLists(n))

C6_Witness ==
    /\ pc = "matrix"
    /\ \E n \in Nodes :
          /\ ~is_leaf(n)
          /\ Len(multi_descendants[n]) > Cardinality(Range(multi_descendants[n]))
          /\ Cardinality(Range(multi_descendants[n])) >= 2
    /\ \E l \in Nodes : is_leaf(l) /\ multi_descendants[l] = << >>

\* C7: every group has at least two members, all of them endpoints of clean
\* matches, and any two of its members are linked by a chain of clean matches
\* whose endpoints lie in the group.
C7_GroupsConnected ==
    pc = "done" =>
        \A i \in DOMAIN groups :
            /\ Cardinality(groups[i]) >= 2
            /\ groups[i] \subseteq Endpoints(clean_matches)
            /\ \A n \in groups[i] : LinkedTo({n}, groups[i]) = groups[i]

C7_Witness ==
    /\ pc = "done"
    /\ Len(groups) >= 2
    /\ \E i \in DOMAIN groups : Cardinality(groups[i]) >= 3

\* C8: for lists A and B not both empty, match_score(A,B) is
\* |set(A) & set(B)| / |set(A) | set(B)|, equals match_score(B,A), lies in
\* [0,1], is 0 when the distinct prefixes are disjoint and 1 when A = B.
C8_ScoreIsJaccard ==
    LET A == call_vectors[1]
        B == call_vectors[2]
        common == { p \in PrefixPool : (\E i \in DOMAIN A : A[i] = p)
                                       /\ (\E j \in DOMAIN B : B[j] = p) }
        either == { p \in PrefixPool : (\E i \in DOMAIN A : A[i] = p)
                                       \/ (\E j \in DOMAIN B : B[j] = p) }
    IN  (call_result.state # "none" /\ (A # << >> \/ B # << >>)) =>
            /\ call_result.state = "returned"
            /\ call_result.value[2] > 0
            /\ FloatEq(call_result.value, <<Cardinality(common), Cardinality(either)>>)
            /\ FloatEq(call_result.value, match_score(B, A))
            /\ FloatGeq(call_result.value, <<0, 1>>)
            /\ FloatGeq(<<1, 1>>, call_result.value)
            /\ common = {} => FloatEq(call_result.value, <<0, 1>>)
            /\ A = B => FloatEq(call_result.value, <<1, 1>>)

C8_Witness ==
    /\ call_result.state = "returned"
    /\ Len(call_vectors[1]) > Cardinality(Range(call_vectors[1]))
    /\ call_vectors[2] # << >>
    /\ Range(call_vectors[1]) # Range(call_vectors[2])
    /\ call_result.value[1] > 0

\* C9: on the tree ((X_1,Y_1),(X_2,Y_2)) with threshold 0.5 both subclades
\* have the distinct descendant set {X,Y} and score 1.0; there is one raw
\* match (the two subclades), one clean match and one group, of size 2,
\* without the root.
C9_Scenario ==
    /\ pc = "done"
    /\ up = TwoClades
    /\ name = [l \in {1, 2, 4, 5} |->
                 CASE l = 1 -> <<"X", "_", "1">>
                   [] l = 2 -> <<"Y", "_", "1">>
                   [] l = 4 -> <<"X", "_", "2">>
                   [] l = 5 -> <<"Y", "_", "2">>]
    /\ s = <<1, 2>>

C9_EndToEnd ==
    C9_Scenario =>
        /\ Range(multi_descendants[3]) = { <<"X">>, <<"Y">> }
        /\ Range(multi_descendants[6]) = { <<"X">>, <<"Y">> }
        /\ node_refs = <<3, 6, 7>>
        /\ FloatEq(match_matrix[1][2], <<1, 1>>)
        /\ FloatEq(match_matrix[2][1], <<1, 1>>)
        /\ node_matches = << <<3, 6>> >>
        /\ clean_matches = << <<3, 6>> >>
        /\ groups = << {3, 6} >>
        /\ Root \notin groups[1]

C9_Witness == C9_Scenario /\ Len(groups) = 1

\* C10: the clean list is a sub-list of the raw list, in the same order;
\* every raw match left out of it is dominated (section 4.5) by a match of
\* the clean list; the clean list is empty only if the raw list is.
C10_DiscardedAreDominated ==
    Cleaned =>
        /\ Range(clean_matches) \subseteq Range(node_matches)
        /\ clean_matches =
              SelectSeq(node_matches, LAMBDA m : m \in Range(clean_matches))
        /\ \A m \in Range(node_matches) \ Range(clean_matches) :
              \E o \in Range(clean_matches) : Dominates(o, m)
        /\ node_matches # << >> => clean_matches # << >>

C10_Witness ==
    /\ pc = "done"
    /\ \E m, o \in Range(node_matches) \ Range(clean_matches) : Dominates(o, m)

====
